---- MODULE Spec2Model ----
(***************************************************************************)
(* Model of the Istio performer (package actions): the conflict-safe       *)
(* patch of the sidecar-injector MutatingWebhookConfiguration, the mapping *)
(* of `istioctl version` output to IstioStatus, the resolution of the      *)
(* target version from the Istio chart, the operations Install, Update,    *)
(* Uninstall, ResetProxy and Version over their collaborators, and the     *)
(* audit log middleware of the mothership.                                 *)
(***************************************************************************)
EXTENDS Integers, Sequences, FiniteSets, TLC

\* ------------------------------------------------------------------------
\* Bounds of the model
\* ------------------------------------------------------------------------
MaxHooks == 2   \* webhook entries per configuration in the initial cluster
MaxExprs == 2   \* match expressions per entry in the initial cluster
MaxExt   == 2   \* writes of other actors in Spec
MaxCalls == 2   \* PatchMutatingWebhook calls per behaviour

\* ------------------------------------------------------------------------
\* Program constants
\* ------------------------------------------------------------------------
primary == "istio-revision-tag-default"
secondary == "istio-sidecar-injector"
candidatesNamesReversed == <<secondary, primary>>
candidatesNames == <<primary, secondary>>
webhookNameToChange == "auto.sidecar-injector.istio.io"
requiredLabelSelector ==
    [Key |-> "gardener.cloud/purpose", Operator |-> "NotIn", Values |-> <<"kube-system">>]
\* retry.DefaultRetry: wait.Backoff{Steps: 5, ...}
RetrySteps == 5

\* ------------------------------------------------------------------------
\* Cluster data: what a MutatingWebhookConfiguration can hold
\* ------------------------------------------------------------------------
otherWebhookName == "namespace.sidecar-injector.istio.io"
\* an expression on the same key that is not structurally equal to the rule
otherLabelSelector ==
    [Key |-> "gardener.cloud/purpose", Operator |-> "NotIn",
     Values |-> <<"kube-system", "kyma-system">>]
Exprs == {requiredLabelSelector, otherLabelSelector}

SeqsUpTo(S, n) == UNION {[1..k -> S] : k \in 0..n}

\* A webhook entry; HasSelector = FALSE is a nil NamespaceSelector pointer.
TargetEntries ==
    {[Name |-> webhookNameToChange, HasSelector |-> FALSE, MatchExpressions |-> <<>>]}
    \cup {[Name |-> webhookNameToChange, HasSelector |-> TRUE, MatchExpressions |-> s] :
            s \in SeqsUpTo(Exprs, MaxExprs)}
OtherEntries ==
    {[Name |-> otherWebhookName, HasSelector |-> TRUE, MatchExpressions |-> <<otherLabelSelector>>]}
WebhookLists == SeqsUpTo(TargetEntries \cup OtherEntries, MaxHooks)

Absent == [present |-> FALSE, rv |-> 0, ca |-> 0, Webhooks |-> <<>>]
Stored(w) == [present |-> TRUE, rv |-> 1, ca |-> 0, Webhooks |-> w]

\* the in-memory object of one attempt (*v1.MutatingWebhookConfiguration)
NilConf == [valid |-> FALSE, Name |-> "", rv |-> 0, ca |-> 0, Webhooks |-> <<>>, fetchedIn |-> 0]

\* ------------------------------------------------------------------------
\* Errors
\* ------------------------------------------------------------------------
MkErr(kind, conf, entry, causeKind, causeName, at) ==
    [kind |-> kind, conf |-> conf, entry |-> entry,
     causeKind |-> causeKind, causeName |-> causeName, at |-> at]
NoErr == MkErr("nil", "", "", "", "", 0)
ClientsetErr == MkErr("ClientsetErr", "", "", "", "", 0)
NotFoundErr(name, at) == MkErr("NotFound", name, "", "", "", at)
ConflictErr(name, at) == MkErr("Conflict", name, "", "", "", at)
\* ctx.Err() of a cancelled context, as a client-go call returns it
CanceledErr(name, at) == MkErr("ContextCanceled", name, "", "", "", at)
\* errors.Wrap(err, "MutatingWebhookConfigurations could not be selected from candidates")
SelectErr(cause) == MkErr("SelectFailed", "", "", cause.kind, cause.conf, cause.at)
\* fmt.Errorf("could not find webhook %s in WebhookConfiguration %s", ...)
EntryNotFoundErr(entry, conf, at) == MkErr("EntryNotFound", conf, entry, "", "", at)

VARIABLES
    server,       \* the cluster's MutatingWebhookConfigurations, by name
    clientsetOk,  \* whether kubeClient.Clientset() succeeds
    pc,           \* position of PatchMutatingWebhook: idle, select, mutate, update, crashed
    steps,        \* backoff.Steps of the running retry loop
    idx,          \* index of the candidate loop in selectWebhookConfFormCandidates
    err,          \* named result err of selectWebhookConfFormCandidates
    whConf,       \* whConf of the running attempt
    lastErr,      \* lastErr of retry.OnError
    result,       \* what the last PatchMutatingWebhook call returned
    calls,        \* calls started
    ext,          \* writes made by other actors
    got,          \* history: the object as the running attempt fetched it
    fetches,      \* history: the Get calls of the running attempt, <<name, ok>>
    submitted,    \* history: Update calls submitted by the running attempt
    accepted,     \* history: the object of this call the server accepted
    ends,         \* history: what each attempt of the current call returned
    quiet,        \* history: no other actor wrote since the last call returned
    hist,         \* history: one record per returned call
    versionOutput, \* mapVersionToStruct: the bytes the version query returned
    targetVersion, \* mapVersionToStruct: the target version handed in
    mapped,        \* mapVersionToStruct: its outcome, once it ran
    chartIn,       \* getTargetVersionFromIstioChart: workspace, chart values and metadata
    resolved,      \* getTargetVersionFromIstioChart: its outcome, once it ran
    ctxDone,       \* the caller's context is cancelled
    op,            \* the performer operation called last
    ppc,           \* the step the running operation is at; 0 when none runs
    args,          \* the arguments of the operation
    loc,           \* the locals of the running operation
    log,           \* history: the collaborator calls the operation made
    ret,           \* what the operation returned
    nsPresent,     \* the cluster has the istio-system namespace
    ops,           \* operations started
    req,           \* audit log: the request the middleware handles
    mpc,           \* audit log: position of the middleware
    responses,     \* audit log: what was written to the ResponseWriter
    entries,       \* audit log: the entries logged
    nextRuns       \* audit log: times next.ServeHTTP ran for the request

patchVars == <<server, clientsetOk, pc, steps, idx, err, whConf, lastErr, result, calls, ext,
               got, fetches, submitted, accepted, ends, quiet, hist>>
versionVars == <<versionOutput, targetVersion, mapped>>
chartVars == <<chartIn, resolved>>
opVars == <<ctxDone, op, ppc, args, loc, log, ret, nsPresent, ops>>
auditVars == <<req, mpc, responses, entries, nextRuns>>
vars == <<server, clientsetOk, pc, steps, idx, err, whConf, lastErr, result, calls, ext,
          got, fetches, submitted, accepted, ends, quiet, hist,
          versionOutput, targetVersion, mapped, chartIn, resolved,
          ctxDone, op, ppc, args, loc, log, ret, nsPresent, ops,
          req, mpc, responses, entries, nextRuns>>

\* ------------------------------------------------------------------------
\* The API server (client-go calls of the performer)
\* ------------------------------------------------------------------------
\* MutatingWebhookConfigurations().Get(context, webhookName, ...)
ApiGet(srv, name, at) ==
    IF name \in DOMAIN srv /\ srv[name].present
    THEN [err |-> NoErr,
          obj |-> [valid |-> TRUE, Name |-> name, rv |-> srv[name].rv, ca |-> srv[name].ca,
                   Webhooks |-> srv[name].Webhooks, fetchedIn |-> at]]
    ELSE [err |-> NotFoundErr(name, at), obj |-> NilConf]

ApiUpdateUnconditional(srv, obj, at) ==
    IF ~(obj.Name \in DOMAIN srv /\ srv[obj.Name].present)
    THEN [err |-> NotFoundErr(obj.Name, at), srv |-> srv]
    ELSE [err |-> NoErr,
          srv |-> [srv EXCEPT ![obj.Name] =
                     [present |-> TRUE,
                      rv |-> IF @.Webhooks = obj.Webhooks /\ @.ca = obj.ca THEN @.rv ELSE @.rv + 1,
                      ca |-> obj.ca,
                      Webhooks |-> obj.Webhooks]]]
\* MutatingWebhookConfigurations().Update(context, whConf, ...): a full update,
\* rejected with a conflict when the object's resource version is stale; an
\* update that changes nothing leaves the resource version as it is.
ApiUpdate(srv, obj, at) ==
    IF ~(obj.Name \in DOMAIN srv /\ srv[obj.Name].present)
    THEN [err |-> NotFoundErr(obj.Name, at), srv |-> srv]
    ELSE IF srv[obj.Name].rv # obj.rv
    THEN [err |-> ConflictErr(obj.Name, at), srv |-> srv]
    ELSE [err |-> NoErr,
          srv |-> [srv EXCEPT ![obj.Name] =
                     [present |-> TRUE,
                      rv |-> IF @.Webhooks = obj.Webhooks /\ @.ca = obj.ca THEN @.rv ELSE @.rv + 1,
                      ca |-> obj.ca,
                      Webhooks |-> obj.Webhooks]]]

\* the calls as PatchMutatingWebhook issues them, with the context it was
\* given: a request with a cancelled context is not sent
CtxGet(done, srv, name, at) ==
    IF done THEN [err |-> CanceledErr(name, at), obj |-> NilConf] ELSE ApiGet(srv, name, at)
CtxUpdate(done, srv, obj, at) ==
    IF done THEN [err |-> CanceledErr(obj.Name, at), srv |-> srv] ELSE ApiUpdate(srv, obj, at)

\* ------------------------------------------------------------------------
\* addNamespaceSelectorIfNotPresent
\* ------------------------------------------------------------------------
\* reflect.DeepEqual(matchExpressions[j], requiredLabelSelector)
DeepEqualKeyOnly(a, b) == a.Key = b.Key
DeepEqualNever(a, b) == FALSE
DeepEqual(a, b) == a.Key = b.Key /\ a.Operator = b.Operator /\ a.Values = b.Values

\* the inner loop: hasRequiredLabel after scanning matchExpressions
hasRequiredLabel(matchExpressions, required) ==
    \E j \in 1..Len(matchExpressions) : DeepEqual(matchExpressions[j], required)

FirstWebhookLast(webhooks, name) ==
    IF \E i \in 1..Len(webhooks) : webhooks[i].Name = name
    THEN CHOOSE i \in 1..Len(webhooks) :
            /\ webhooks[i].Name = name
            /\ \A j \in (i+1)..Len(webhooks) : webhooks[j].Name # name
    ELSE 0
\* the outer loop: index of the first entry with the name, 0 if there is none
FirstWebhook(webhooks, name) ==
    IF \E i \in 1..Len(webhooks) : webhooks[i].Name = name
    THEN CHOOSE i \in 1..Len(webhooks) :
            /\ webhooks[i].Name = name
            /\ \A j \in 1..(i-1) : webhooks[j].Name # name
    ELSE 0

addNamespaceSelectorMissingIsNil(conf, name, required) ==
    [panic |-> FALSE, err |-> NoErr,
     conf |-> IF \E i \in 1..Len(conf.Webhooks) :
                    /\ conf.Webhooks[i].Name = name
                    /\ ~hasRequiredLabel(conf.Webhooks[i].MatchExpressions, required)
              THEN [conf EXCEPT !.Webhooks[FirstWebhook(conf.Webhooks, name)].MatchExpressions =
                                    Append(@, required)]
              ELSE conf]

\* Result of the function on the object conf: the error it returns, the object
\* as it leaves it, and panic when it dereferences a nil NamespaceSelector.
addNamespaceSelectorIfNotPresent(conf, name, required) ==
    LET i == FirstWebhook(conf.Webhooks, name) IN
    IF i = 0
    THEN [panic |-> FALSE, err |-> EntryNotFoundErr(name, conf.Name, conf.fetchedIn), conf |-> conf]
    ELSE IF ~conf.Webhooks[i].HasSelector
    THEN [panic |-> TRUE, err |-> NoErr, conf |-> conf]
    ELSE IF hasRequiredLabel(conf.Webhooks[i].MatchExpressions, required)
    THEN [panic |-> FALSE, err |-> NoErr, conf |-> conf]
    ELSE [panic |-> FALSE, err |-> NoErr,
          conf |-> [conf EXCEPT !.Webhooks[i].MatchExpressions = Append(@, required)]]

\* ------------------------------------------------------------------------
\* retry.RetryOnConflict(retry.DefaultRetry, fn)
\* ------------------------------------------------------------------------
\* errors.IsConflict
IsConflictOrNotFound(e) == e.kind \in {"Conflict", "NotFound"}
IsConflict(e) == e.kind = "Conflict"

\* lastErr = err in retry.OnError
RecordLastErr(le, e) == e

\* where a retried attempt starts: the closure runs again from its first line
RetryEntryUpdate == "update"
RetryEntry == "select"

\* One round of wait.ExponentialBackoff around the closure, which returned e
\* with st steps left: run again, or return ret.
OnErrorUnbounded(e, st, le) ==
    IF e = NoErr THEN [again |-> FALSE, ret |-> NoErr, lastErr |-> le]
    ELSE IF IsConflict(e)
    THEN [again |-> TRUE, ret |-> NoErr, lastErr |-> RecordLastErr(le, e)]
    ELSE [again |-> FALSE, ret |-> e, lastErr |-> le]
OnError(e, st, le) ==
    IF e = NoErr THEN [again |-> FALSE, ret |-> NoErr, lastErr |-> le]
    ELSE IF IsConflict(e)
    THEN IF st = 1
         THEN [again |-> FALSE, ret |-> RecordLastErr(le, e), lastErr |-> RecordLastErr(le, e)]
         ELSE [again |-> TRUE, ret |-> NoErr, lastErr |-> RecordLastErr(le, e)]
    ELSE [again |-> FALSE, ret |-> e, lastErr |-> le]

\* ------------------------------------------------------------------------
\* PatchMutatingWebhook
\* ------------------------------------------------------------------------
TypeOK ==
    /\ pc \in {"idle", "select", "mutate", "update", "crashed"}
    /\ steps \in 0..RetrySteps
    /\ idx \in 0..Len(candidatesNames)
    /\ calls \in 0..MaxCalls
    /\ clientsetOk \in BOOLEAN
    /\ quiet \in BOOLEAN

\* The cluster at the start: each candidate is absent or holds a list of
\* entries; the two candidates of one installation carry the same entries.
PatchInit ==
    /\ \E w \in WebhookLists, p \in BOOLEAN, s \in BOOLEAN :
          server = [n \in {primary, secondary} |->
                      IF (n = primary /\ p) \/ (n = secondary /\ s) THEN Stored(w) ELSE Absent]
    /\ clientsetOk \in BOOLEAN
    /\ pc = "idle"
    /\ steps = 0
    /\ idx = 0
    /\ err = NoErr
    /\ whConf = NilConf
    /\ lastErr = NoErr
    /\ result = NoErr
    /\ calls = 0
    /\ ext = 0
    /\ got = NilConf
    /\ fetches = <<>>
    /\ submitted = 0
    /\ accepted = NilConf
    /\ ends = <<>>
    /\ quiet = TRUE
    /\ hist = <<>>

\* the call returns e to its caller
Return(e) ==
    /\ pc' = "idle"
    /\ result' = e
    /\ steps' = 0
    /\ idx' = 0
    /\ err' = NoErr
    /\ whConf' = NilConf
    /\ quiet' = TRUE
    /\ hist' = Append(hist, [res |-> e, server |-> server', quiet |-> quiet,
                             submitted |-> submitted', accepted |-> accepted', got |-> got'])

\* the closure of an attempt returned e: retry.OnError decides what follows
FnReturn(e) ==
    LET d == OnError(e, steps, lastErr) IN
    /\ ends' = Append(ends, e)
    /\ lastErr' = d.lastErr
    /\ IF d.again
       THEN /\ pc' = RetryEntry
            /\ steps' = steps - 1
            /\ idx' = 1
            /\ err' = NoErr
            /\ UNCHANGED <<result, quiet, hist>>
            /\ whConf' = IF RetryEntry = "select" THEN NilConf ELSE whConf
       ELSE Return(d.ret)

\* lines 182-200: Clientset(), then the retry loop starts its first attempt
Call ==
    /\ pc = "idle"
    /\ calls < MaxCalls
    /\ calls' = calls + 1
    /\ got' = NilConf
    /\ fetches' = <<>>
    /\ submitted' = 0
    /\ accepted' = NilConf
    /\ ends' = <<>>
    /\ lastErr' = NoErr
    /\ UNCHANGED <<server, clientsetOk, ext>>
    /\ IF ~clientsetOk
       THEN Return(ClientsetErr)
       ELSE /\ pc' = "select"
            /\ steps' = RetrySteps
            /\ idx' = 1
            /\ err' = NoErr
            /\ whConf' = NilConf
            /\ UNCHANGED <<result, quiet, hist>>

\* the attempt in progress, counted from 1
attemptNo == Len(ends) + 1

\* lines 246-250: a candidate is selected when its Get returned no error
SelectedIfHasEntry(r) ==
    r.err = NoErr /\ \E i \in 1..Len(r.obj.Webhooks) : r.obj.Webhooks[i].Name = webhookNameToChange
Selected(r) == r.err = NoErr

\* lines 243-252: one iteration of the candidate loop
Fetch ==
    /\ pc = "select"
    /\ LET name == candidatesNames[idx]
           r == CtxGet(ctxDone, server, name, attemptNo)
       IN /\ fetches' = (IF idx = 1 THEN <<>> ELSE fetches) \o <<<<name, r.err = NoErr>>>>
          /\ UNCHANGED <<server, clientsetOk, calls, ext, accepted>>
          /\ IF Selected(r)
             THEN /\ whConf' = r.obj
                  /\ got' = r.obj
                  /\ submitted' = 0
                  /\ pc' = "mutate"
                  /\ UNCHANGED <<steps, idx, err, lastErr, result, ends, quiet, hist>>
             ELSE IF idx < Len(candidatesNames)
             THEN /\ idx' = idx + 1
                  /\ err' = r.err
                  /\ UNCHANGED <<pc, steps, whConf, lastErr, result, got, submitted, ends,
                                 quiet, hist>>
             ELSE /\ got' = NilConf
                  /\ submitted' = 0
                  /\ FnReturn(SelectErr(r.err))

\* lines 205-208
Mutate ==
    /\ pc = "mutate"
    /\ LET r == addNamespaceSelectorIfNotPresent(whConf, webhookNameToChange,
                                                 requiredLabelSelector)
       IN /\ UNCHANGED <<server, clientsetOk, calls, ext, got, fetches, submitted, accepted>>
          /\ IF r.panic
             THEN /\ pc' = "crashed"
                  /\ UNCHANGED <<steps, idx, err, whConf, lastErr, result, ends, quiet, hist>>
             ELSE IF r.err # NoErr
             THEN FnReturn(r.err)
             ELSE /\ whConf' = r.conf
                  /\ pc' = "update"
                  /\ UNCHANGED <<steps, idx, err, lastErr, result, ends, quiet, hist>>

\* lines 209-212, and what RetryOnConflict does with the result
Update ==
    /\ pc = "update"
    /\ LET r == CtxUpdate(ctxDone, server, whConf, attemptNo)
       IN /\ server' = r.srv
          /\ submitted' = submitted + 1
          /\ accepted' = IF r.err = NoErr THEN whConf ELSE accepted
          /\ UNCHANGED <<clientsetOk, calls, ext, got, fetches>>
          /\ FnReturn(r.err)

\* ------------------------------------------------------------------------
\* Other actors writing the shared configurations
\* ------------------------------------------------------------------------
ExtFrame ==
    /\ ext' = ext + 1
    /\ quiet' = FALSE
    /\ UNCHANGED <<clientsetOk, pc, steps, idx, err, whConf, lastErr, result, calls,
                   got, fetches, submitted, accepted, ends, hist>>

\* another actor rewrites a field outside the webhook entries' selectors
\* (e.g. the CA bundle is re-injected)
Touch(n, budget) ==
    /\ ext < budget
    /\ server[n].present
    /\ server' = [server EXCEPT ![n].ca = 1 - @, ![n].rv = @ + 1]
    /\ ExtFrame

ExtTouch(n) == Touch(n, MaxExt)

\* another actor adds an expression to the selector of the target entry
ExtAppend(n, e) ==
    /\ ext < MaxExt
    /\ server[n].present
    /\ LET i == FirstWebhook(server[n].Webhooks, webhookNameToChange) IN
          /\ i # 0
          /\ server[n].Webhooks[i].HasSelector
          /\ Len(server[n].Webhooks[i].MatchExpressions) < MaxExprs
          /\ server' = [server EXCEPT ![n].Webhooks[i].MatchExpressions = Append(@, e),
                                      ![n].rv = @ + 1]
    /\ ExtFrame

\* the configuration is deleted
ExtDelete(n) ==
    /\ ext < MaxExt
    /\ server[n].present
    /\ server' = [server EXCEPT ![n] = Absent]
    /\ ExtFrame

PatchNext ==
    \/ Call
    \/ Fetch
    \/ Mutate
    \/ Update
    \/ \E n \in {primary, secondary} : ExtTouch(n)
    \/ \E n \in {primary, secondary}, e \in Exprs : ExtAppend(n, e)
    \/ \E n \in {primary, secondary} : ExtDelete(n)

\* A writer that can get in the way of every attempt of one retry loop: it
\* rewrites a configuration up to RetrySteps times.
Contend(n) == Touch(n, RetrySteps)

PatchNextContention ==
    \/ Call
    \/ Fetch
    \/ Mutate
    \/ Update
    \/ \E n \in {primary, secondary} : Contend(n)

\* ------------------------------------------------------------------------
\* encoding/json over tokens
\* ------------------------------------------------------------------------
\* The bytes of an output are modelled token by token: "g" is a byte of
\* banner text, "{" "}" "[" "]" "," are themselves, a key token is a quoted
\* member name with its colon, a string token a quoted string, a number
\* token a number and "null" the literal.
MaxNoise == 2   \* bytes of banner text in front of a version output

KeyTokens == {"clientVersion:", "meshVersion:", "dataPlaneVersion:", "version:", "Info:",
              "IstioVersion:", "Component:", "global:", "images:", "istio_pilot:", "sub:"}
StrTokens == {"", "1.11.0", "1.11.1", "1.11.2", "1.2.3", "9.9.9", "pilot", "alice"}
NumTokens == {"#1.11"}

JNull == [t |-> "null", s |-> "", items |-> <<>>]
JStr(x) == [t |-> "str", s |-> x, items |-> <<>>]
JNum(x) == [t |-> "num", s |-> x, items |-> <<>>]
JArr(es) == [t |-> "arr", s |-> "", items |-> es]
\* members are <<key token, value>> pairs
JObj(ms) == [t |-> "obj", s |-> "", items |-> ms]

ParseFail == [ok |-> FALSE, v |-> JNull, next |-> 0]

RECURSIVE ParseValue(_, _)
RECURSIVE ParseMembers(_, _, _)
RECURSIVE ParseElems(_, _, _)

\* the value that starts at token i
ParseValue(toks, i) ==
    IF i > Len(toks) THEN ParseFail
    ELSE IF toks[i] = "{"
    THEN IF i + 1 <= Len(toks) /\ toks[i+1] = "}"
         THEN [ok |-> TRUE, v |-> JObj(<<>>), next |-> i + 2]
         ELSE ParseMembers(toks, i + 1, <<>>)
    ELSE IF toks[i] = "["
    THEN IF i + 1 <= Len(toks) /\ toks[i+1] = "]"
         THEN [ok |-> TRUE, v |-> JArr(<<>>), next |-> i + 2]
         ELSE ParseElems(toks, i + 1, <<>>)
    ELSE IF toks[i] \in StrTokens THEN [ok |-> TRUE, v |-> JStr(toks[i]), next |-> i + 1]
    ELSE IF toks[i] \in NumTokens THEN [ok |-> TRUE, v |-> JNum(toks[i]), next |-> i + 1]
    ELSE IF toks[i] = "null" THEN [ok |-> TRUE, v |-> JNull, next |-> i + 1]
    ELSE ParseFail

\* the members of an object from token i on, up to its closing brace
ParseMembers(toks, i, acc) ==
    IF i > Len(toks) \/ toks[i] \notin KeyTokens THEN ParseFail
    ELSE LET r == ParseValue(toks, i + 1) IN
         IF ~r.ok \/ r.next > Len(toks) THEN ParseFail
         ELSE LET acc2 == Append(acc, <<toks[i], r.v>>) IN
              IF toks[r.next] = "}" THEN [ok |-> TRUE, v |-> JObj(acc2), next |-> r.next + 1]
              ELSE IF toks[r.next] = "," THEN ParseMembers(toks, r.next + 1, acc2)
              ELSE ParseFail

\* the elements of an array from token i on, up to its closing bracket
ParseElems(toks, i, acc) ==
    LET r == ParseValue(toks, i) IN
    IF ~r.ok \/ r.next > Len(toks) THEN ParseFail
    ELSE LET acc2 == Append(acc, r.v) IN
         IF toks[r.next] = "]" THEN [ok |-> TRUE, v |-> JArr(acc2), next |-> r.next + 1]
         ELSE IF toks[r.next] = "," THEN ParseElems(toks, r.next + 1, acc2)
         ELSE ParseFail

\* json.Unmarshal checks the whole input first: one value and nothing after it
ParseDocument(toks) ==
    LET r == ParseValue(toks, 1) IN
    IF r.ok /\ r.next = Len(toks) + 1 THEN [ok |-> TRUE, v |-> r.v]
    ELSE [ok |-> FALSE, v |-> JNull]

\* the value of the last member with the key, null when there is none
Member(obj, key) ==
    LET hits == {k \in 1..Len(obj.items) : obj.items[k][1] = key} IN
    IF hits = {} THEN JNull
    ELSE obj.items[CHOOSE k \in hits : \A m \in hits : m <= k][2]

RECURSIVE JoinMembers(_)
RECURSIVE JoinElems(_)
RECURSIVE MarshalValue(_)

\* json.Marshal of a value tree (the order of the members is kept)
MarshalValue(v) ==
    IF v.t = "obj" THEN <<"{">> \o JoinMembers(v.items) \o <<"}">>
    ELSE IF v.t = "arr" THEN <<"[">> \o JoinElems(v.items) \o <<"]">>
    ELSE IF v.t = "null" THEN <<"null">>
    ELSE <<v.s>>

JoinMembers(ms) ==
    IF ms = <<>> THEN <<>>
    ELSE <<ms[1][1]>> \o MarshalValue(ms[1][2])
         \o (IF Len(ms) = 1 THEN <<>> ELSE <<",">> \o JoinMembers(Tail(ms)))

JoinElems(es) ==
    IF es = <<>> THEN <<>>
    ELSE MarshalValue(es[1])
         \o (IF Len(es) = 1 THEN <<>> ELSE <<",">> \o JoinElems(Tail(es)))

\* decoding into a Go string field: null leaves the zero value
DecodeString(v) ==
    IF v.t = "str" THEN [ok |-> TRUE, s |-> v.s]
    ELSE IF v.t = "null" THEN [ok |-> TRUE, s |-> ""]
    ELSE [ok |-> FALSE, s |-> ""]

\* ------------------------------------------------------------------------
\* IstioVersionOutput and mapVersionToStruct
\* ------------------------------------------------------------------------
\* *ClientVersion
DecodeClientVersion(v) ==
    IF v.t = "null" THEN [ok |-> TRUE, p |-> [nil |-> TRUE, Version |-> ""]]
    ELSE IF v.t = "obj"
    THEN LET d == DecodeString(Member(v, "version:")) IN
         [ok |-> d.ok, p |-> [nil |-> FALSE, Version |-> d.s]]
    ELSE [ok |-> FALSE, p |-> [nil |-> TRUE, Version |-> ""]]

\* *MeshComponent with its *MeshInfo
DecodeMeshComponent(v) ==
    IF v.t = "null" THEN [ok |-> TRUE, p |-> [nil |-> TRUE, InfoNil |-> TRUE, Version |-> ""]]
    ELSE IF v.t = "obj"
    THEN LET c == DecodeString(Member(v, "Component:"))
             i == Member(v, "Info:")
         IN IF i.t = "null"
            THEN [ok |-> c.ok, p |-> [nil |-> FALSE, InfoNil |-> TRUE, Version |-> ""]]
            ELSE IF i.t = "obj"
            THEN LET d == DecodeString(Member(i, "version:")) IN
                 [ok |-> c.ok /\ d.ok, p |-> [nil |-> FALSE, InfoNil |-> FALSE, Version |-> d.s]]
            ELSE [ok |-> FALSE, p |-> [nil |-> FALSE, InfoNil |-> TRUE, Version |-> ""]]
    ELSE [ok |-> FALSE, p |-> [nil |-> TRUE, InfoNil |-> TRUE, Version |-> ""]]

\* *DataPlaneVersion
DecodeDataPlaneVersion(v) ==
    IF v.t = "null" THEN [ok |-> TRUE, p |-> [nil |-> TRUE, IstioVersion |-> ""]]
    ELSE IF v.t = "obj"
    THEN LET d == DecodeString(Member(v, "IstioVersion:")) IN
         [ok |-> d.ok, p |-> [nil |-> FALSE, IstioVersion |-> d.s]]
    ELSE [ok |-> FALSE, p |-> [nil |-> TRUE, IstioVersion |-> ""]]

\* json.Unmarshal(versionOutput, &version) for IstioVersionOutput
UnmarshalVersionOutput(toks) ==
    LET doc == ParseDocument(toks)
        bad == [ok |-> FALSE,
                version |-> [ClientVersion |-> [nil |-> TRUE, Version |-> ""],
                             MeshVersion |-> <<>>, DataPlaneVersion |-> <<>>]]
    IN
    IF ~doc.ok \/ doc.v.t # "obj" THEN bad
    ELSE LET c == DecodeClientVersion(Member(doc.v, "clientVersion:"))
             m == Member(doc.v, "meshVersion:")
             d == Member(doc.v, "dataPlaneVersion:")
             ms == IF m.t = "arr" THEN [k \in 1..Len(m.items) |-> DecodeMeshComponent(m.items[k])]
                   ELSE <<>>
             ds == IF d.t = "arr" THEN [k \in 1..Len(d.items) |-> DecodeDataPlaneVersion(d.items[k])]
                   ELSE <<>>
         IN IF /\ c.ok
               /\ m.t \in {"arr", "null"}
               /\ d.t \in {"arr", "null"}
               /\ \A k \in 1..Len(ms) : ms[k].ok
               /\ \A k \in 1..Len(ds) : ds[k].ok
            THEN [ok |-> TRUE,
                  version |-> [ClientVersion |-> c.p,
                               MeshVersion |-> [k \in 1..Len(ms) |-> ms[k].p],
                               DataPlaneVersion |-> [k \in 1..Len(ds) |-> ds[k].p]]]
            ELSE bad

\* getVersionFromJSON: the string it returns, or panic on a nil dereference
getVersionFromJSON(versionType, json) ==
    IF versionType = "client"
    THEN IF json.ClientVersion.nil THEN [panic |-> TRUE, s |-> ""]
         ELSE [panic |-> FALSE, s |-> json.ClientVersion.Version]
    ELSE IF versionType = "pilot"
    THEN IF Len(json.MeshVersion) > 0
         THEN IF json.MeshVersion[1].nil \/ json.MeshVersion[1].InfoNil
              THEN [panic |-> TRUE, s |-> ""]
              ELSE [panic |-> FALSE, s |-> json.MeshVersion[1].Version]
         ELSE [panic |-> FALSE, s |-> ""]
    ELSE IF versionType = "dataPlane"
    THEN IF Len(json.DataPlaneVersion) > 0
         THEN IF json.DataPlaneVersion[1].nil THEN [panic |-> TRUE, s |-> ""]
              ELSE [panic |-> FALSE, s |-> json.DataPlaneVersion[1].IstioVersion]
         ELSE [panic |-> FALSE, s |-> ""]
    ELSE [panic |-> FALSE, s |-> ""]

\* bytes.IndexRune(versionOutput, '{'): 0-based, -1 when there is none
IndexRune(toks, r) ==
    IF \E k \in 1..Len(toks) : toks[k] = r
    THEN (CHOOSE k \in 1..Len(toks) : toks[k] = r /\ \A j \in 1..(k-1) : toks[j] # r) - 1
    ELSE -1

IstioStatus(c, t, p, d) ==
    [ClientVersion |-> c, TargetVersion |-> t, PilotVersion |-> p, DataPlaneVersion |-> d]
EmptyStatus == IstioStatus("", "", "", "")
NotMapped == [ran |-> FALSE, panic |-> FALSE, err |-> "", status |-> EmptyStatus]

\* mapVersionToStruct: the status and error it returns, or panic when it
\* slices out of range or dereferences nil.
mapVersionToStruct(output, target) ==
    IF Len(output) = 0
    THEN [ran |-> TRUE, panic |-> FALSE, err |-> "the result of the version command is empty",
          status |-> EmptyStatus]
    ELSE LET index == IndexRune(output, "{") IN
         IF index < 0
         THEN [ran |-> TRUE, panic |-> TRUE, err |-> "", status |-> EmptyStatus]
         ELSE LET trimmed == IF index # 0 THEN SubSeq(output, index + 1, Len(output)) ELSE output
                  u == UnmarshalVersionOutput(trimmed)
              IN IF ~u.ok
                 THEN [ran |-> TRUE, panic |-> FALSE, err |-> "unmarshal", status |-> EmptyStatus]
                 ELSE LET c == getVersionFromJSON("client", u.version)
                          p == getVersionFromJSON("pilot", u.version)
                          d == getVersionFromJSON("dataPlane", u.version)
                      IN IF c.panic \/ p.panic \/ d.panic
                         THEN [ran |-> TRUE, panic |-> TRUE, err |-> "", status |-> EmptyStatus]
                         ELSE [ran |-> TRUE, panic |-> FALSE, err |-> "",
                               status |-> IstioStatus(c.s, target, p.s, d.s)]

\* What `istioctl version -o json` can print for each of the three members.
ClientMembers ==
    { <<>>,
      <<"clientVersion:", "{", "version:", "1.11.0", "}">>,
      <<"clientVersion:", "{", "}">>,
      <<"clientVersion:", "null">>,
      <<"clientVersion:", "1.11.0">> }
MeshMembers ==
    { <<>>,
      <<"meshVersion:", "[", "]">>,
      <<"meshVersion:", "[", "{", "Component:", "pilot", ",", "Info:", "{", "version:", "1.11.1",
        "}", "}", "]">>,
      <<"meshVersion:", "[", "{", "Component:", "pilot", "}", "]">>,
      <<"meshVersion:", "[", "null", "]">>,
      <<"meshVersion:", "{", "}">> }
DataPlaneMembers ==
    { <<>>,
      <<"dataPlaneVersion:", "[", "]">>,
      <<"dataPlaneVersion:", "[", "{", "IstioVersion:", "1.11.2", "}", "]">>,
      <<"dataPlaneVersion:", "[", "{", "}", "]">>,
      <<"dataPlaneVersion:", "[", "null", "]">> }

Comma(a, b) == IF a = <<>> THEN b ELSE IF b = <<>> THEN a ELSE a \o <<",">> \o b
Noise(n) == [k \in 1..n |-> "g"]

\* well-formed outputs, behind up to MaxNoise bytes of banner text
WellFormedOutputs ==
    {Noise(n) \o <<"{">> \o Comma(c, Comma(m, d)) \o <<"}">> :
        n \in 0..MaxNoise, c \in ClientMembers, m \in MeshMembers, d \in DataPlaneMembers}

\* every output the version query can return here: a well-formed one, cut
\* anywhere (down to nothing), or followed by a byte of other text
VersionOutputs ==
    UNION {{SubSeq(o, 1, k) : k \in 0..Len(o)} : o \in WellFormedOutputs}
    \cup {o \o <<"g">> : o \in WellFormedOutputs}

TargetVersions == {"1.11.2"}

\* ------------------------------------------------------------------------
\* getTargetVersionFromIstioChart
\* ------------------------------------------------------------------------
NotResolved == [ran |-> FALSE, version |-> "", err |-> ""]

\* json.Unmarshal(mapAsJSON, &chartValues): the nested structs of chartValues
UnmarshalChartValues(toks) ==
    LET doc == ParseDocument(toks) IN
    IF ~doc.ok THEN [ok |-> FALSE, version |-> ""]
    ELSE IF doc.v.t = "null" THEN [ok |-> TRUE, version |-> ""]
    ELSE IF doc.v.t # "obj" THEN [ok |-> FALSE, version |-> ""]
    ELSE LET g == Member(doc.v, "global:") IN
         IF g.t = "null" THEN [ok |-> TRUE, version |-> ""]
         ELSE IF g.t # "obj" THEN [ok |-> FALSE, version |-> ""]
         ELSE LET i == Member(g, "images:") IN
              IF i.t = "null" THEN [ok |-> TRUE, version |-> ""]
              ELSE IF i.t # "obj" THEN [ok |-> FALSE, version |-> ""]
              ELSE LET pl == Member(i, "istio_pilot:") IN
                   IF pl.t = "null" THEN [ok |-> TRUE, version |-> ""]
                   ELSE IF pl.t # "obj" THEN [ok |-> FALSE, version |-> ""]
                   ELSE LET d == DecodeString(Member(pl, "version:")) IN
                        [ok |-> d.ok, version |-> d.s]

\* getTargetVersionFromPilotInChartValues: the values of a loaded chart come
\* from YAML, which json.Marshal always encodes; decoding them can fail.
getTargetVersionFromPilotInChartValues(helmChart) ==
    LET u == UnmarshalChartValues(MarshalValue(helmChart.Values)) IN
    IF ~u.ok THEN [version |-> "", err |-> "unmarshal"]
    ELSE [version |-> u.version, err |-> ""]

\* getTargetVersionFromAppVersionInChartDefinition
getTargetVersionFromAppVersionInChartDefinition(helmChart) == helmChart.AppVersion

getTargetVersionAppVersionFirst(in) ==
    IF in.wsErr THEN [ran |-> TRUE, version |-> "", err |-> "workspace"]
    ELSE IF in.loadErr THEN [ran |-> TRUE, version |-> "", err |-> "load"]
    ELSE LET pv == getTargetVersionFromPilotInChartValues(in.chart)
             appVersion == getTargetVersionFromAppVersionInChartDefinition(in.chart)
         IN IF pv.err # "" THEN [ran |-> TRUE, version |-> "", err |-> pv.err]
            ELSE IF appVersion # "" THEN [ran |-> TRUE, version |-> appVersion, err |-> ""]
            ELSE IF pv.version # "" THEN [ran |-> TRUE, version |-> pv.version, err |-> ""]
            ELSE [ran |-> TRUE, version |-> "", err |-> "not found"]

\* getTargetVersionFromIstioChart on the workspace and chart of in
getTargetVersionFromIstioChart(in) ==
    IF in.wsErr THEN [ran |-> TRUE, version |-> "", err |-> "workspace"]
    ELSE IF in.loadErr THEN [ran |-> TRUE, version |-> "", err |-> "load"]
    ELSE LET pv == getTargetVersionFromPilotInChartValues(in.chart) IN
         IF pv.err # "" THEN [ran |-> TRUE, version |-> "", err |-> pv.err]
         ELSE IF pv.version # "" THEN [ran |-> TRUE, version |-> pv.version, err |-> ""]
         ELSE LET appVersion == getTargetVersionFromAppVersionInChartDefinition(in.chart) IN
              IF appVersion # "" THEN [ran |-> TRUE, version |-> appVersion, err |-> ""]
              ELSE [ran |-> TRUE, version |-> "", err |-> "not found"]

\* what values.yaml can hold at version, the leaf of the values path
PilotVersionLeaves == {JStr("1.2.3"), JStr(""), JNull, JNum("#1.11")}

\* The values of a chart: the path global.images.istio_pilot.version cut at
\* any depth, ending in any leaf, or crossing a value that is not a mapping.
ChartValuesSet ==
    {JNull, JObj(<<>>), JObj(<< <<"global:", JStr("pilot")>> >>),
     JObj(<< <<"global:", JObj(<<>>)>> >>),
     JObj(<< <<"global:", JObj(<< <<"images:", JArr(<<>>)>> >>)>> >>),
     JObj(<< <<"global:", JObj(<< <<"images:", JObj(<<>>)>> >>)>> >>),
     JObj(<< <<"global:", JObj(<< <<"images:",
            JObj(<< <<"istio_pilot:", JObj(<<>>)>> >>)>> >>)>> >>)}
    \cup {JObj(<< <<"global:", JObj(<< <<"images:",
            JObj(<< <<"istio_pilot:", JObj(<< <<"version:", l>> >>)>> >>)>> >>)>> >>) :
            l \in PilotVersionLeaves}

AppVersions == {"", "1.2.3", "9.9.9"}
NoChartIn == [wsErr |-> FALSE, loadErr |-> FALSE, chart |-> [Values |-> JNull, AppVersion |-> ""]]

\* ------------------------------------------------------------------------
\* The operations of DefaultIstioPerformer over its collaborators
\* ------------------------------------------------------------------------
MaxOps == 2   \* operations called per behaviour

istioImagePrefix == "istio/proxyv2"
retriesCount == 5
\* the durations, in seconds
delayBetweenRetries == 5
timeout == 300
interval == 12

\* An error: the collaborator call that failed and the messages wrapped
\* around it, outermost first.
Nil == [cause |-> "", msgs |-> <<>>]
Failure(call) == [cause |-> call, msgs |-> <<>>]
\* errors.Wrap(err, message)
Wrap(e, message) == IF e = Nil THEN Nil ELSE [e EXCEPT !.msgs = <<message>> \o @]

\* One step of an operation: the call it makes, the message it wraps the
\* call's error in ("" when it returns the error as it is), and the context
\* the call is given ("caller", "TODO" for context.TODO(), "none" when the
\* call takes no context).
Step(call, wrap, ctx) == [call |-> call, wrap |-> wrap, ctx |-> ctx]

\* lines 122-154
UninstallStepsDeleteFirst ==
    << Step("VersionFromString", "Error parsing version", "none"),
       Step("GetCommander", "", "none"),
       Step("Clientset", "", "none"),
       Step("Namespaces.Delete", "", "TODO"),
       Step("commander.Uninstall", "Error occurred when calling istioctl", "none") >>
UninstallSteps ==
    << Step("VersionFromString", "Error parsing version", "none"),
       Step("GetCommander", "", "none"),
       Step("commander.Uninstall", "Error occurred when calling istioctl", "none"),
       Step("Clientset", "", "none"),
       Step("Namespaces.Delete", "", "TODO") >>

\* lines 156-180
InstallStepsExtractLast ==
    << Step("VersionFromString", "Error parsing version", "none"),
       Step("GetCommander", "", "none"),
       Step("commander.Install", "Error occurred when calling istioctl", "none"),
       Step("ExtractIstioOperatorContextFrom", "", "none") >>
InstallSteps ==
    << Step("VersionFromString", "Error parsing version", "none"),
       Step("ExtractIstioOperatorContextFrom", "", "none"),
       Step("GetCommander", "", "none"),
       Step("commander.Install", "Error occurred when calling istioctl", "none") >>

\* lines 254-280
UpdateSteps ==
    << Step("VersionFromString", "Error parsing version", "none"),
       Step("ExtractIstioOperatorContextFrom", "", "none"),
       Step("GetCommander", "", "none"),
       Step("commander.Upgrade", "Error occurred when calling istioctl", "none") >>

\* lines 282-308
ResetProxySteps ==
    << Step("RetrieveFrom", "", "none"),
       Step("istioProxyReset.Run", "Istio proxy reset error", "caller") >>

\* lines 310-334
VersionSteps ==
    << Step("getTargetVersionFromIstioChart", "Target Version could not be found", "none"),
       Step("VersionFromString", "Error parsing version", "none"),
       Step("GetCommander", "", "none"),
       Step("commander.Version", "", "none"),
       Step("mapVersionToStruct", "", "none") >>

Operations == {"Uninstall", "Install", "Update", "ResetProxy", "Version"}
Program(o) ==
    CASE o = "Uninstall" -> UninstallSteps
      [] o = "Install" -> InstallSteps
      [] o = "Update" -> UpdateSteps
      [] o = "ResetProxy" -> ResetProxySteps
      [] o = "Version" -> VersionSteps
      [] OTHER -> <<>>

\* fmt.Sprintf("%s-distroless", proxyImageVersion)
ImageVersionOnce(proxyImageVersion) ==
    IF proxyImageVersion \in {"1.11.2-distroless"} THEN proxyImageVersion
    ELSE proxyImageVersion \o "-distroless"
ImageVersion(proxyImageVersion) == proxyImageVersion \o "-distroless"

\* istioConfig.IstioProxyConfig as ResetProxy fills it (lines 289-300)
NoCfg ==
    [Context |-> "", ImagePrefix |-> "", ImageVersion |-> "", RetriesCount |-> 0,
     DelayBetweenRetries |-> 0, Timeout |-> 0, Interval |-> 0, Kubeclient |-> FALSE,
     Debug |-> FALSE]
IstioProxyConfig(proxyImageVersion, kubeClient) ==
    [Context |-> "caller", ImagePrefix |-> istioImagePrefix,
     ImageVersion |-> ImageVersion(proxyImageVersion), RetriesCount |-> retriesCount,
     DelayBetweenRetries |-> delayBetweenRetries, Timeout |-> timeout,
     Interval |-> interval, Kubeclient |-> kubeClient, Debug |-> FALSE]

\* the inputs of the operations
Versions == {"1.11.2", "1.12.0"}
ProxyImageVersions == {"1.11.2", "1.11.2-distroless", ""}
NoArgs == [version |-> "", proxyImageVersion |-> ""]
ArgsOf(o) ==
    IF o \in {"Uninstall", "Install", "Update"}
    THEN {[NoArgs EXCEPT !.version = v] : v \in Versions}
    ELSE IF o = "ResetProxy"
    THEN {[NoArgs EXCEPT !.proxyImageVersion = t] : t \in ProxyImageVersions}
    ELSE {NoArgs}
\* what the workspace and the chart hold when Version is called
ChartSamples ==
    { [wsErr |-> TRUE, loadErr |-> FALSE, chart |-> [Values |-> JNull, AppVersion |-> "1.2.3"]],
      [wsErr |-> FALSE, loadErr |-> FALSE, chart |-> [Values |-> JNull, AppVersion |-> ""]],
      [wsErr |-> FALSE, loadErr |-> FALSE, chart |-> [Values |-> JNull, AppVersion |-> "1.2.3"]],
      [wsErr |-> FALSE, loadErr |-> FALSE, chart |-> [Values |-> JNull, AppVersion |-> "9.9.9"]] }
\* what commander.Version returns when it succeeds
OutputSamples ==
    { <<>>, <<"g">>, <<"{", "}">>, <<"g", "{", "}">>, <<"{">>,
      <<"{", "clientVersion:", "{", "version:", "1.11.0", "}", ",",
        "meshVersion:", "[", "{", "Component:", "pilot", ",", "Info:", "{", "version:", "1.11.1",
        "}", "}", "]", ",",
        "dataPlaneVersion:", "[", "{", "IstioVersion:", "1.11.2", "}", "]", "}">> }

\* the locals of an operation: execVersion/version (a parsed version is
\* identified by the string it was parsed from), commander (identified by the
\* version it was resolved for) and kubeClient
NoLoc == [execVersion |-> "", commander |-> "", kubeClient |-> FALSE]
NotCalled == [state |-> "none", err |-> Nil, status |-> EmptyStatus]
Running == [state |-> "running", err |-> Nil, status |-> EmptyStatus]

\* what the operation hands to the call it makes: the string argument, the
\* commander the call is made on, and the proxy reset configuration
CallArg(call) ==
    [s |-> CASE call = "VersionFromString" ->
                    IF op = "Version" THEN targetVersion ELSE args.version
             [] call = "GetCommander" -> loc.execVersion
             [] call = "Namespaces.Delete" -> "istio-system"
             [] OTHER -> "",
     on |-> IF call \in {"commander.Install", "commander.Upgrade", "commander.Uninstall",
                         "commander.Version"}
            THEN loc.commander ELSE "",
     cfg |-> IF call = "istioProxyReset.Run"
             THEN IstioProxyConfig(args.proxyImageVersion, loc.kubeClient) ELSE NoCfg]

\* How the call of a step can end. The functions of this package end as
\* they compute; a call given a cancelled context fails; the namespace can
\* only be deleted when it exists; every other collaborator can succeed or fail.
Ok == [ok |-> TRUE, panic |-> FALSE]
Failed == [ok |-> FALSE, panic |-> FALSE]
Panicked == [ok |-> FALSE, panic |-> TRUE]
Outcomes(s, target, status) ==
    IF s.ctx = "caller" /\ ctxDone THEN {Failed}
    ELSE IF s.call = "getTargetVersionFromIstioChart"
    THEN IF target.err = "" THEN {Ok} ELSE {Failed}
    ELSE IF s.call = "mapVersionToStruct"
    THEN IF status.panic THEN {Panicked} ELSE IF status.err = "" THEN {Ok} ELSE {Failed}
    ELSE IF s.call = "Namespaces.Delete" /\ ~nsPresent THEN {Failed}
    ELSE {Ok, Failed}

OpIdle ==
    /\ ctxDone = FALSE
    /\ op = ""
    /\ ppc = 0
    /\ args = NoArgs
    /\ loc = NoLoc
    /\ log = <<>>
    /\ ret = NotCalled
    /\ nsPresent = TRUE
    /\ ops = 0

\* the caller calls operation o
Start(o) ==
    /\ ppc = 0
    /\ ret.state # "panicked"
    /\ ops < MaxOps
    /\ ops' = ops + 1
    /\ op' = o
    /\ ppc' = 1
    /\ args' \in ArgsOf(o)
    /\ loc' = NoLoc
    /\ log' = <<>>
    /\ ret' = Running
    /\ chartIn' \in (IF o = "Version" THEN ChartSamples ELSE {NoChartIn})
    /\ resolved' = NotResolved
    /\ versionOutput' = <<>>
    /\ targetVersion' = ""
    /\ mapped' = NotMapped
    /\ UNCHANGED <<ctxDone, nsPresent>>

\* the running operation makes the call of its step and goes on, returns or
\* panics as the call ended
OpStep ==
    /\ ppc \in 1..Len(Program(op))
    /\ LET s == Program(op)[ppc]
           e == Failure(s.call)
           target == IF s.call = "getTargetVersionFromIstioChart"
                     THEN getTargetVersionFromIstioChart(chartIn) ELSE resolved
           status == IF s.call = "mapVersionToStruct"
                     THEN mapVersionToStruct(versionOutput, targetVersion) ELSE mapped
       IN \E o \in Outcomes(s, target, status) :
          /\ log' = Append(log, [call |-> s.call, arg |-> CallArg(s.call), ctx |-> s.ctx,
                                 ok |-> o.ok])
          /\ nsPresent' = IF s.call = "Namespaces.Delete" /\ o.ok THEN FALSE ELSE nsPresent
          /\ loc' = IF ~o.ok THEN loc
                    ELSE IF s.call = "VersionFromString"
                    THEN [loc EXCEPT !.execVersion = CallArg(s.call).s]
                    ELSE IF s.call = "GetCommander"
                    THEN [loc EXCEPT !.commander = loc.execVersion]
                    ELSE IF s.call \in {"Clientset", "RetrieveFrom"}
                    THEN [loc EXCEPT !.kubeClient = TRUE]
                    ELSE loc
          /\ resolved' = target
          /\ targetVersion' = IF s.call = "getTargetVersionFromIstioChart"
                              THEN target.version ELSE targetVersion
          /\ IF s.call = "commander.Version" /\ o.ok
             THEN versionOutput' \in OutputSamples
             ELSE UNCHANGED versionOutput
          /\ mapped' = status
          /\ IF o.panic
             THEN /\ ppc' = 0
                  /\ ret' = [state |-> "panicked", err |-> Nil, status |-> EmptyStatus]
             ELSE IF ~o.ok
             THEN /\ ppc' = 0
                  /\ ret' = [state |-> "returned",
                             err |-> IF s.wrap = "" THEN e ELSE Wrap(e, s.wrap),
                             status |-> EmptyStatus]
             ELSE IF ppc = Len(Program(op))
             THEN /\ ppc' = 0
                  /\ ret' = [state |-> "returned", err |-> Nil,
                             status |-> IF op = "Version" THEN mapped'.status ELSE EmptyStatus]
             ELSE /\ ppc' = ppc + 1
                  /\ UNCHANGED ret
    /\ UNCHANGED <<ctxDone, op, args, ops, chartIn>>

\* the caller cancels its context
Cancel ==
    /\ ~ctxDone
    /\ ctxDone' = TRUE
    /\ UNCHANGED <<op, ppc, args, loc, log, ret, nsPresent, ops>>

\* ------------------------------------------------------------------------
\* The audit log middleware (cmd/mothership/mothership/start/auditlog.go)
\* ------------------------------------------------------------------------
\* A request: the contract version route parameter, the method, the X-Jwt
\* header and the body. A header is a sequence of tokens: none when the
\* header is not set, "b64:" followed by the tokens of the payload it
\* encodes, or bytes that are no base64url.
NoRequest == [contractVersion |-> "", Method |-> "", XJwt |-> <<>>, bodyReadable |-> TRUE,
              Body |-> ""]
JWTPayloads ==
    { <<"{", "sub:", "alice", "}">>, <<"{", "sub:", "", "}">>, <<"{", "}">>, <<"null">>,
      <<"{", "sub:", "#1.11", "}">>, <<"{", "sub:">>, <<"alice">> }
XJwtHeaders == {<<>>, <<"%">>} \cup {<<"b64:">> \o pl : pl \in JWTPayloads}
Requests ==
    [contractVersion : {"1", "v1", ""}, Method : {"GET", "POST", "PUT", "DELETE"},
     XJwt : XJwtHeaders, bodyReadable : BOOLEAN, Body : {"{}"}]

\* params.Int64(paramContractVersion): strconv.ParseInt of the parameter
Int64(str) ==
    IF str = "1" THEN [ok |-> TRUE, n |-> 1]
    ELSE IF str = "2" THEN [ok |-> TRUE, n |-> 2]
    ELSE [ok |-> FALSE, n |-> 0]

\* lines 145-152: base64.RawURLEncoding.DecodeString of the header
getJWTPayload(r) ==
    IF Len(r.XJwt) = 0 THEN [ok |-> TRUE, payload |-> <<>>]
    ELSE IF r.XJwt[1] = "b64:" THEN [ok |-> TRUE, payload |-> Tail(r.XJwt)]
    ELSE [ok |-> FALSE, payload |-> <<>>]

\* lines 158-164: json.Unmarshal of the payload into jwtSub
getJWTPayloadSub(payload) ==
    IF payload = <<>> THEN [ok |-> TRUE, sub |-> ""]
    ELSE LET d == ParseDocument(payload) IN
         IF ~d.ok THEN [ok |-> FALSE, sub |-> ""]
         ELSE IF d.v.t = "null" THEN [ok |-> TRUE, sub |-> ""]
         ELSE IF d.v.t # "obj" THEN [ok |-> FALSE, sub |-> ""]
         ELSE LET f == DecodeString(Member(d.v, "sub:")) IN [ok |-> f.ok, sub |-> f.s]

\* server.SendHTTPError(w, status, ...)
HTTPError(status, message) == [by |-> "auditLogRequest", status |-> status, error |-> message]

\* lines 84-143: what auditLogRequest writes to the ResponseWriter and what
\* it logs. json.Marshal of the data struct (an int64 and strings) does not
\* fail, so its error branch is never taken.
auditLogRequest(r) ==
    LET cv == Int64(r.contractVersion)
        jwt == getJWTPayload(r)
        sub == getJWTPayloadSub(jwt.payload)
        readsBody == r.Method = "POST" \/ r.Method = "PUT"
    IN IF ~cv.ok
       THEN [responses |-> <<HTTPError(400, "Contract version undefined")>>, entries |-> <<>>]
       ELSE IF ~jwt.ok
       THEN [responses |-> <<HTTPError(500, "Failed to parse X-Jwt header content ")>>,
             entries |-> <<>>]
       ELSE IF ~sub.ok
       THEN [responses |-> <<HTTPError(500, "failed to Unmarshal JWT payload")>>,
             entries |-> <<>>]
       ELSE IF readsBody /\ ~r.bodyReadable
       THEN [responses |-> <<HTTPError(500, "Failed to read received JSON payload")>>,
             entries |-> <<>>]
       ELSE LET user == IF sub.sub # "" THEN sub.sub ELSE "UNKOWEN_USER" IN
            [responses |-> <<>>,
             entries |-> << [user |-> user,
                             data |-> [ContractVersion |-> cv.n, Method |-> r.Method,
                                       RequestBody |-> IF readsBody THEN r.Body ELSE "",
                                       User |-> user, JWTPayload |-> jwt.payload]] >>]

AuditIdle ==
    /\ req = NoRequest
    /\ mpc = "idle"
    /\ responses = <<>>
    /\ entries = <<>>
    /\ nextRuns = 0

\* a request reaches the handler the middleware returned
Receive ==
    /\ mpc \in {"idle", "done"}
    /\ req' \in Requests
    /\ mpc' = "audit"
    /\ responses' = <<>>
    /\ entries' = <<>>
    /\ nextRuns' = 0

\* line 68: auditLogRequest(w, r, l)
Audit ==
    /\ mpc = "audit"
    /\ LET a == auditLogRequest(req) IN
          /\ responses' = responses \o a.responses
          /\ entries' = entries \o a.entries
    /\ mpc' = "next"
    /\ UNCHANGED <<req, nextRuns>>

\* line 70: next.ServeHTTP(w, r); the next handler writes its response
ServeNext ==
    /\ mpc = "next"
    /\ nextRuns' = nextRuns + 1
    /\ \E status \in {200, 404} :
          responses' = Append(responses, [by |-> "next", status |-> status, error |-> ""])
    /\ mpc' = "done"
    /\ UNCHANGED <<req, entries>>

\* ------------------------------------------------------------------------
\* Specifications
\* ------------------------------------------------------------------------
PatchIdle ==
    /\ server = [n \in {primary, secondary} |-> Absent]
    /\ clientsetOk = TRUE
    /\ pc = "idle"
    /\ steps = 0
    /\ idx = 0
    /\ err = NoErr
    /\ whConf = NilConf
    /\ lastErr = NoErr
    /\ result = NoErr
    /\ calls = 0
    /\ ext = 0
    /\ got = NilConf
    /\ fetches = <<>>
    /\ submitted = 0
    /\ accepted = NilConf
    /\ ends = <<>>
    /\ quiet = TRUE
    /\ hist = <<>>

VersionIdle ==
    /\ versionOutput = <<>>
    /\ targetVersion = ""
    /\ mapped = NotMapped

ChartIdle ==
    /\ chartIn = NoChartIn
    /\ resolved = NotResolved

\* PatchMutatingWebhook against a cluster other actors write to
Init == PatchInit /\ VersionIdle /\ ChartIdle /\ OpIdle /\ AuditIdle
Next == PatchNext /\ UNCHANGED <<versionVars, chartVars, opVars, auditVars>>
Spec == Init /\ [][Next]_vars

\* the cluster at the start, with configurations of at most one entry
InitContention ==
    /\ Init
    /\ \A n \in {primary, secondary} : Len(server[n].Webhooks) <= 1
NextContention == PatchNextContention /\ UNCHANGED <<versionVars, chartVars, opVars, auditVars>>
SpecContention == InitContention /\ [][NextContention]_vars

\* The call runs synchronously on its goroutine and the backoff sleeps are
\* finite: a started call keeps taking its steps.
CallStep == (Fetch \/ Mutate \/ Update) /\ UNCHANGED <<versionVars, chartVars, opVars, auditVars>>
FairContention == SpecContention /\ WF_vars(CallStep)

\* mapVersionToStruct applied to an output of the version query
InitVersion ==
    /\ PatchIdle
    /\ ChartIdle
    /\ OpIdle
    /\ AuditIdle
    /\ versionOutput \in VersionOutputs
    /\ targetVersion \in TargetVersions
    /\ mapped = NotMapped

MapVersion ==
    /\ ~mapped.ran
    /\ mapped' = mapVersionToStruct(versionOutput, targetVersion)
    /\ UNCHANGED <<versionOutput, targetVersion, patchVars, chartVars, opVars, auditVars>>

NextVersion == MapVersion
SpecVersion == InitVersion /\ [][NextVersion]_vars

\* the operations of the performer, called one after another
InitPerformer ==
    /\ PatchIdle
    /\ VersionIdle
    /\ ChartIdle
    /\ AuditIdle
    /\ ctxDone = FALSE
    /\ op = ""
    /\ ppc = 0
    /\ args = NoArgs
    /\ loc = NoLoc
    /\ log = <<>>
    /\ ret = NotCalled
    /\ nsPresent \in BOOLEAN
    /\ ops = 0
NextPerformer ==
    \/ (\E o \in Operations : Start(o)) /\ UNCHANGED <<patchVars, auditVars>>
    \/ OpStep /\ UNCHANGED <<patchVars, auditVars>>
    \/ Cancel /\ UNCHANGED <<patchVars, versionVars, chartVars, auditVars>>
SpecPerformer == InitPerformer /\ [][NextPerformer]_vars

\* PatchMutatingWebhook against a cluster whose two candidates hold
\* different entries (each is absent or holds at most one entry)
InitDiverged ==
    /\ VersionIdle
    /\ ChartIdle
    /\ OpIdle
    /\ AuditIdle
    /\ clientsetOk = TRUE
    /\ pc = "idle"
    /\ steps = 0
    /\ idx = 0
    /\ err = NoErr
    /\ whConf = NilConf
    /\ lastErr = NoErr
    /\ result = NoErr
    /\ calls = 0
    /\ ext = 0
    /\ got = NilConf
    /\ fetches = <<>>
    /\ submitted = 0
    /\ accepted = NilConf
    /\ ends = <<>>
    /\ quiet = TRUE
    /\ hist = <<>>
    /\ server \in [{primary, secondary} ->
                     {Absent} \cup {Stored(w) : w \in SeqsUpTo(TargetEntries \cup OtherEntries, 1)}]
SpecDiverged == InitDiverged /\ [][Next]_vars

\* The operations that call the cluster, called one after another by a
\* caller that can cancel its context at any moment; the cluster starts with
\* both configurations holding the target entry without the rule.
ClusterOperations == {"Uninstall", "ResetProxy"}
InitCancel ==
    /\ InitContention
    /\ clientsetOk
    /\ \A n \in {primary, secondary} :
          /\ server[n].present
          /\ Len(server[n].Webhooks) = 1
          /\ server[n].Webhooks[1].Name = webhookNameToChange
          /\ server[n].Webhooks[1].MatchExpressions = <<>>
NextCancel ==
    \/ Call /\ ppc = 0 /\ UNCHANGED <<versionVars, chartVars, opVars, auditVars>>
    \/ (Fetch \/ Mutate \/ Update) /\ UNCHANGED <<versionVars, chartVars, opVars, auditVars>>
    \/ (\E n \in {primary, secondary} : ExtTouch(n))
          /\ UNCHANGED <<versionVars, chartVars, opVars, auditVars>>
    \/ (\E o \in ClusterOperations : Start(o)) /\ pc = "idle" /\ UNCHANGED <<patchVars, auditVars>>
    \/ OpStep /\ UNCHANGED <<patchVars, auditVars>>
    \/ Cancel /\ UNCHANGED <<patchVars, versionVars, chartVars, auditVars>>
SpecCancel == InitCancel /\ [][NextCancel]_vars

\* the audit log middleware serving requests one after another
InitAudit == PatchIdle /\ VersionIdle /\ ChartIdle /\ OpIdle /\ AuditIdle
NextAudit ==
    \/ Receive /\ UNCHANGED <<patchVars, versionVars, chartVars, opVars>>
    \/ Audit /\ UNCHANGED <<patchVars, versionVars, chartVars, opVars>>
    \/ ServeNext /\ UNCHANGED <<patchVars, versionVars, chartVars, opVars>>
SpecAudit == InitAudit /\ [][NextAudit]_vars

\* getTargetVersionFromIstioChart applied to a workspace and chart
InitChart ==
    /\ PatchIdle
    /\ VersionIdle
    /\ OpIdle
    /\ AuditIdle
    /\ chartIn \in [wsErr : BOOLEAN, loadErr : BOOLEAN,
                    chart : [Values : ChartValuesSet, AppVersion : AppVersions]]
    /\ resolved = NotResolved

ResolveTargetVersion ==
    /\ ~resolved.ran
    /\ resolved' = getTargetVersionFromIstioChart(chartIn)
    /\ UNCHANGED <<chartIn, patchVars, versionVars, opVars, auditVars>>

NextChart == ResolveTargetVersion
SpecChart == InitChart /\ [][NextChart]_vars

\* ------------------------------------------------------------------------
\* Properties of PatchMutatingWebhook
\* ------------------------------------------------------------------------
Last(s) == s[Len(s)]
Content(srv) ==
    [n \in DOMAIN srv |-> [present |-> srv[n].present, ca |-> srv[n].ca,
                           Webhooks |-> srv[n].Webhooks]]
CountRequired(exprs) ==
    Cardinality({j \in 1..Len(exprs) : exprs[j] = requiredLabelSelector})
TargetIndex(webhooks) ==
    IF \E i \in 1..Len(webhooks) : webhooks[i].Name = webhookNameToChange
    THEN CHOOSE i \in 1..Len(webhooks) :
            /\ webhooks[i].Name = webhookNameToChange
            /\ \A j \in 1..(i-1) : webhooks[j].Name # webhookNameToChange
    ELSE 0
TargetExprs(obj) == obj.Webhooks[TargetIndex(obj.Webhooks)].MatchExpressions

\* C1: when a call returned success and no other actor wrote before the next
\* call returned, that next call returns success too and leaves every
\* configuration as the first call left it (no expression is added again).
C1_Idempotent ==
    \A k \in 2..Len(hist) :
        (hist[k-1].res = NoErr /\ hist[k].quiet) =>
            /\ hist[k].res = NoErr
            /\ Content(hist[k].server) = Content(hist[k-1].server)
            /\ Len(TargetExprs(hist[k].accepted)) = Len(TargetExprs(hist[k-1].accepted))

\* a first call that appended the rule, followed undisturbed by a second call
C1_Witness ==
    /\ Len(hist) = 2
    /\ hist[1].res = NoErr
    /\ hist[2].quiet
    /\ hist[2].res = NoErr
    /\ Len(TargetExprs(hist[1].accepted)) = Len(TargetExprs(hist[1].got)) + 1

\* C2 as stated: after every successful call the target entry of the
\* configuration the server accepted holds the required rule exactly once.
C2_ExactlyOnce ==
    \A k \in 1..Len(hist) :
        hist[k].res = NoErr => CountRequired(TargetExprs(hist[k].accepted)) = 1

\* C2 amended: after every successful call the target entry of the accepted
\* configuration holds the required rule at least once, and the call adds no
\* copy to the ones it fetched: exactly once when the configuration fetched by
\* the accepted attempt held the rule at most once, else as often as fetched.
C2_AtLeastOnceNoneAdded ==
    \A k \in 1..Len(hist) :
        hist[k].res = NoErr =>
            LET n == CountRequired(TargetExprs(hist[k].got)) IN
            CountRequired(TargetExprs(hist[k].accepted)) = IF n = 0 THEN 1 ELSE n

\* a successful call whose accepted attempt followed a conflict and added the rule
C2_Witness ==
    /\ pc = "idle"
    /\ result = NoErr
    /\ Len(ends) >= 2
    /\ CountRequired(TargetExprs(got)) = 0
    /\ Len(TargetExprs(got)) >= 1
    /\ CountRequired(TargetExprs(accepted)) = 1

\* C3: an attempt that is followed by another one ended in a conflict, the
\* next attempt starts at the first candidate of the selection, and the object
\* an attempt mutates and submits is the one that attempt fetched, with the
\* resource version it was fetched at.
C3_RetryRefetches ==
    [][ /\ (Len(ends') > Len(ends) /\ pc' # "idle") =>
              (Last(ends').kind = "Conflict" /\ pc' = "select" /\ idx' = 1)
        /\ (pc' \in {"mutate", "update"}) =>
              /\ whConf'.valid
              /\ whConf'.fetchedIn = Len(ends') + 1
              /\ got'.fetchedIn = Len(ends') + 1
              /\ whConf'.Name = got'.Name
              /\ whConf'.rv = got'.rv ]_vars

\* a second attempt about to submit a version newer than the one that conflicted
C3_Witness ==
    /\ pc = "update"
    /\ Len(ends) >= 1
    /\ Last(ends).kind = "Conflict"
    /\ whConf.fetchedIn = Len(ends) + 1
    /\ whConf.rv > 1

\* C4: a call makes at most RetrySteps attempts; when RetrySteps attempts all
\* ended in a conflict the call has returned, and returned the conflict of the
\* last attempt; and a started call always comes to an end.
C4_Safety ==
    /\ Len(ends) <= RetrySteps
    /\ (pc \in {"select", "mutate", "update"}) => Len(ends) < RetrySteps
    /\ (Len(ends) = RetrySteps /\ \A k \in 1..RetrySteps : ends[k].kind = "Conflict") =>
          /\ pc = "idle"
          /\ result = ends[RetrySteps]
          /\ result.kind = "Conflict"
          /\ result.at = RetrySteps

C4_BoundedRetries ==
    /\ []C4_Safety
    /\ (pc \in {"select", "mutate", "update"}) ~> (pc \in {"idle", "crashed"})

\* every attempt of the call conflicted
C4_Witness ==
    /\ pc = "idle"
    /\ Len(ends) = RetrySteps
    /\ \A k \in 1..RetrySteps : ends[k].kind = "Conflict"
    /\ result.kind = "Conflict"

\* C5: an attempt fetches primary first and secondary only after primary
\* failed; the object it goes on to patch is secondary exactly when the fetch
\* of primary failed and the fetch of secondary succeeded; when both fail the
\* attempt ends with the selection error carrying the failure of the last
\* fetch (secondary's), without submitting an update.
C5_Selection ==
    /\ (pc \in {"mutate", "update"}) =>
          /\ whConf.Name \in {primary, secondary}
          /\ (whConf.Name = primary) <=> (fetches = << <<primary, TRUE>> >>)
          /\ (whConf.Name = secondary) <=>
                (fetches = << <<primary, FALSE>>, <<secondary, TRUE>> >>)
    /\ accepted.valid =>
          ((accepted.Name = secondary) <=>
                (fetches = << <<primary, FALSE>>, <<secondary, TRUE>> >>))
    /\ \A k \in 1..Len(ends) :
          ends[k].kind = "SelectFailed" =>
              /\ ends[k].causeKind = "NotFound"
              /\ ends[k].causeName = secondary
              /\ ends[k].at = k
              /\ k = Len(ends)
              /\ fetches = << <<primary, FALSE>>, <<secondary, FALSE>> >>
              /\ submitted = 0
              /\ pc = "idle"
              /\ result = ends[k]

\* the secondary configuration was patched because primary could not be fetched
C5_Witness ==
    /\ pc = "idle"
    /\ result = NoErr
    /\ accepted.valid
    /\ accepted.Name = secondary
    /\ CountRequired(TargetExprs(accepted)) > CountRequired(TargetExprs(got))

\* C6: when the object an attempt selected has no entry with the target name,
\* the call returns the entry-not-found error naming the entry and the
\* configuration, the attempt submits no update, no update of the call was
\* accepted and the step leaves the cluster as it is.
C6_EntryNotFound ==
    [][ (pc = "mutate" /\ pc' # "mutate" /\ TargetIndex(whConf.Webhooks) = 0) =>
            /\ pc' = "idle"
            /\ result'.kind = "EntryNotFound"
            /\ result'.entry = webhookNameToChange
            /\ result'.conf = whConf.Name
            /\ server' = server
            /\ submitted' = 0
            /\ ~accepted'.valid ]_vars

\* a call has ended with entry-not-found on a configuration that holds entries
C6_Witness ==
    /\ pc = "idle"
    /\ result.kind = "EntryNotFound"
    /\ result.conf = secondary
    /\ Len(got.Webhooks) > 0
    /\ submitted = 0

\* C7: every attempt that was followed by another attempt ended in a conflict;
\* an attempt that ended in any other error is the last one of its call, and
\* the call returned that error.
C7_OnlyConflictRetries ==
    /\ \A k \in 1..(Len(ends) - 1) : ends[k].kind = "Conflict"
    /\ \A k \in 1..Len(ends) :
          (ends[k] # NoErr /\ ends[k].kind # "Conflict") =>
              /\ k = Len(ends)
              /\ pc = "idle"
              /\ result = ends[k]

\* an update rejected because the configuration was deleted ended the call
C7_Witness ==
    /\ pc = "idle"
    /\ result.kind = "NotFound"
    /\ submitted = 1
    /\ Last(ends) = result

\* ------------------------------------------------------------------------
\* Properties of mapVersionToStruct
\* ------------------------------------------------------------------------
HasBrace(output) == \E k \in 1..Len(output) : output[k] = "{"
\* the output without everything before its first '{'
FromFirstBrace(output) ==
    LET k == CHOOSE k \in 1..Len(output) :
                output[k] = "{" /\ \A j \in 1..(k-1) : output[j] # "{"
    IN SubSeq(output, k, Len(output))
Parseable(output) ==
    HasBrace(output) /\ UnmarshalVersionOutput(FromFirstBrace(output)).ok

\* C8: for every output mapVersionToStruct returns a status or an error and
\* does not crash; it returns an error for the empty output, for an output
\* without '{' and for an output that does not parse from its first '{' on.
C8_TotalMapping ==
    mapped.ran =>
        /\ ~mapped.panic
        /\ (Len(versionOutput) = 0 => mapped.err # "")
        /\ (~HasBrace(versionOutput) => mapped.err # "")
        /\ (~Parseable(versionOutput) => mapped.err # "")
        /\ (mapped.err # "" => mapped.status = EmptyStatus)

\* the fields of a parsed output, each "" when what it is read from is absent
StringAt(obj, key) ==
    IF obj.t = "obj" /\ Member(obj, key).t = "str" THEN Member(obj, key).s ELSE ""
FirstOf(v) == IF v.t = "arr" /\ Len(v.items) > 0 THEN v.items[1] ELSE JNull
ExpectedStatus(output, target) ==
    LET doc == ParseDocument(FromFirstBrace(output)).v IN
    IstioStatus(StringAt(Member(doc, "clientVersion:"), "version:"),
                target,
                LET first == FirstOf(Member(doc, "meshVersion:")) IN
                IF first.t = "obj" THEN StringAt(Member(first, "Info:"), "version:") ELSE "",
                StringAt(FirstOf(Member(doc, "dataPlaneVersion:")), "IstioVersion:"))

\* C9: for every parseable output the mapping succeeds without crashing and
\* each field is the version found in the output, or "" when the object,
\* the list, its first element or its Info is absent.
C9_AbsenceTolerated ==
    (mapped.ran /\ Parseable(versionOutput)) =>
        /\ ~mapped.panic
        /\ mapped.err = ""
        /\ mapped.status = ExpectedStatus(versionOutput, targetVersion)

\* ------------------------------------------------------------------------
\* Properties of getTargetVersionFromIstioChart
\* ------------------------------------------------------------------------
\* the mapping under a key of a mapping, null when the key or the mapping is absent
Under(v, key) == IF v.t = "obj" THEN Member(v, key) ELSE JNull
PilotObject(values) == Under(Under(Under(values, "global:"), "images:"), "istio_pilot:")
\* what the values hold at global.images.istio_pilot.version, as text
ValuesPathVersion(values) ==
    LET leaf == Under(PilotObject(values), "version:") IN
    IF leaf.t = "str" THEN leaf.s
    ELSE IF leaf.t = "num" THEN leaf.s
    ELSE ""
\* the values fit chartValues: what is present on the path is a mapping (or
\* null) down to istio_pilot, and version is a string (or null)
MappingOrNull(v) == v.t \in {"obj", "null"}
FitsChartValues(values) ==
    /\ MappingOrNull(values)
    /\ MappingOrNull(Under(values, "global:"))
    /\ MappingOrNull(Under(Under(values, "global:"), "images:"))
    /\ MappingOrNull(PilotObject(values))
    /\ Under(PilotObject(values), "version:").t \in {"str", "null"}

ChartLoaded == resolved.ran /\ ~chartIn.wsErr /\ ~chartIn.loadErr

\* C10 as stated: for every loaded chart the values-path version is returned
\* when non-empty, else the appVersion when non-empty, else not-found.
C10_ValuesFirst ==
    ChartLoaded =>
        LET pv == ValuesPathVersion(chartIn.chart.Values)
            app == chartIn.chart.AppVersion
        IN IF pv # "" THEN resolved.version = pv /\ resolved.err = ""
           ELSE IF app # "" THEN resolved.version = app /\ resolved.err = ""
           ELSE resolved.version = "" /\ resolved.err = "not found"

\* C10 amended: for every loaded chart whose values fit chartValues the
\* values-path version is returned when non-empty, else the appVersion when
\* non-empty, else not-found; when the values do not fit, the decoding error
\* is returned with no version, whatever the appVersion is.
C10_ValuesFirstWhenDecodable ==
    ChartLoaded =>
        LET pv == ValuesPathVersion(chartIn.chart.Values)
            app == chartIn.chart.AppVersion
        IN IF ~FitsChartValues(chartIn.chart.Values)
           THEN resolved.version = "" /\ resolved.err = "unmarshal"
           ELSE IF pv # "" THEN resolved.version = pv /\ resolved.err = ""
           ELSE IF app # "" THEN resolved.version = app /\ resolved.err = ""
           ELSE resolved.version = "" /\ resolved.err = "not found"

\* the values-path version won over a different appVersion
C10_Witness ==
    /\ ChartLoaded
    /\ chartIn.chart.AppVersion = "9.9.9"
    /\ ValuesPathVersion(chartIn.chart.Values) = "1.2.3"
    /\ resolved.version = "1.2.3"
    /\ resolved.err = ""

\* C17: no update is lost. An update the server accepts was computed from
\* the configuration as the server holds it at that moment, so whatever
\* another actor wrote before the accepted write (fields outside the
\* entries, other entries, other expressions of the target entry) is still
\* there after it, and no other configuration changes.
C17_NoLostUpdate ==
    [][ (accepted' # accepted /\ accepted'.valid) =>
           LET n == accepted'.Name
               old == server[n]
               new == server'[n]
               t == TargetIndex(old.Webhooks)
           IN /\ old.present
              /\ got.Name = n
              /\ got.rv = old.rv
              /\ got.ca = old.ca
              /\ got.Webhooks = old.Webhooks
              /\ new.present
              /\ new.ca = old.ca
              /\ Len(new.Webhooks) = Len(old.Webhooks)
              /\ \A i \in 1..Len(old.Webhooks) :
                    /\ i # t => new.Webhooks[i] = old.Webhooks[i]
                    /\ Len(new.Webhooks[i].MatchExpressions)
                          >= Len(old.Webhooks[i].MatchExpressions)
                    /\ \A j \in 1..Len(old.Webhooks[i].MatchExpressions) :
                          new.Webhooks[i].MatchExpressions[j] = old.Webhooks[i].MatchExpressions[j]
              /\ \A m \in DOMAIN server \ {n} : server'[m] = server[m]
      ]_vars
C17_Witness ==
    /\ pc = "idle"
    /\ result = NoErr
    /\ Len(ends) >= 2
    /\ ends[1].kind = "Conflict"
    /\ accepted.valid
    /\ accepted.ca = 1
    /\ server[accepted.Name].ca = 1
    /\ got.fetchedIn = 2

\* C18: whether the secondary candidate is tried is decided by the fetch
\* alone. When the Get of the primary succeeded, no other candidate is
\* fetched in that attempt; and when the primary fetched holds no entry of
\* the target name the call ends with the entry-not-found error of the
\* primary, without an update and without a look at the secondary, also when
\* the secondary holds the entry.
C18_NoFallbackOnMissingEntry ==
    [][ /\ (fetches' # <<>> /\ fetches'[1] = <<primary, TRUE>>) => Len(fetches') = 1
        /\ (pc = "mutate" /\ pc' # "mutate" /\ got.Name = primary
                /\ TargetIndex(got.Webhooks) = 0) =>
              /\ pc' = "idle"
              /\ result' = EntryNotFoundErr(webhookNameToChange, primary, got.fetchedIn)
              /\ submitted' = 0
              /\ fetches' = <<<<primary, TRUE>>>>
              /\ server' = server
      ]_vars
C18_Witness ==
    /\ pc = "idle"
    /\ calls = 1
    /\ ext = 0
    /\ result.kind = "EntryNotFound"
    /\ result.conf = primary
    /\ fetches = <<<<primary, TRUE>>>>
    /\ server[secondary].present
    /\ TargetIndex(server[secondary].Webhooks) # 0
    /\ server[secondary].Webhooks[1].HasSelector
    /\ CountRequired(server[secondary].Webhooks[1].MatchExpressions) = 0

\* C19: the object submitted differs from the object fetched at most in the
\* match expressions of the first entry named as the target: they are the
\* fetched ones when a structurally equal expression is among them, else the
\* fetched ones with the required rule appended at the end. Nothing is
\* removed, reordered or merged, every other entry (a later entry of the same
\* name too) is as fetched, and an update writes at most the configuration
\* that was selected.
C19_Frame ==
    [][ /\ pc' = "update" =>
              LET t == TargetIndex(got'.Webhooks)
                  old == got'.Webhooks
                  new == whConf'.Webhooks
              IN /\ t # 0
                 /\ whConf'.Name = got'.Name
                 /\ whConf'.rv = got'.rv
                 /\ whConf'.ca = got'.ca
                 /\ Len(new) = Len(old)
                 /\ \A i \in 1..Len(old) : i # t => new[i] = old[i]
                 /\ new[t].Name = old[t].Name
                 /\ new[t].HasSelector = old[t].HasSelector
                 /\ new[t].MatchExpressions =
                       IF \E j \in 1..Len(old[t].MatchExpressions) :
                             old[t].MatchExpressions[j] = requiredLabelSelector
                       THEN old[t].MatchExpressions
                       ELSE old[t].MatchExpressions \o <<requiredLabelSelector>>
        /\ submitted' > submitted =>
              /\ whConf.Name = got.Name
              /\ \A m \in DOMAIN server \ {whConf.Name} : server'[m] = server[m]
              /\ \/ server'[whConf.Name] = server[whConf.Name]
                 \/ /\ server'[whConf.Name].Webhooks = whConf.Webhooks
                    /\ server'[whConf.Name].ca = whConf.ca
      ]_vars
C19_Witness ==
    /\ pc = "update"
    /\ Len(got.Webhooks) = 2
    /\ got.Webhooks[1].Name = webhookNameToChange
    /\ got.Webhooks[2].Name = webhookNameToChange
    /\ got.Webhooks[1].MatchExpressions = <<otherLabelSelector>>
    /\ got.Webhooks[2].MatchExpressions = <<>>
    /\ whConf.Webhooks[1].MatchExpressions = <<otherLabelSelector, requiredLabelSelector>>
    /\ whConf.Webhooks[2] = got.Webhooks[2]

\* ------------------------------------------------------------------------
\* Properties of the performer's operations
\* ------------------------------------------------------------------------
CallsOf(name) == {i \in 1..Len(log) : log[i].call = name}
OkCall(name) == \E i \in CallsOf(name) : log[i].ok
FailedCall(name) == \E i \in CallsOf(name) : ~log[i].ok
Returned == ret.state = "returned"

\* C11: Uninstall returns success only when the commander's uninstall and the
\* deletion of the istio-system namespace both succeeded; when the uninstall
\* succeeded and the deletion failed it returns the deletion's error; and the
\* deletion is attempted only after the commander's uninstall (and every call
\* before it) returned success.
C11_UninstallThenDelete ==
    op = "Uninstall" =>
        /\ (Returned /\ ret.err = Nil) =>
              /\ OkCall("commander.Uninstall")
              /\ OkCall("Namespaces.Delete")
              /\ ~nsPresent
        /\ (Returned /\ OkCall("commander.Uninstall") /\ FailedCall("Namespaces.Delete")) =>
              ret.err.cause = "Namespaces.Delete"
        /\ \A i \in CallsOf("Namespaces.Delete") :
              /\ log[i].arg.s = "istio-system"
              /\ \E j \in 1..(i - 1) : log[j].call = "commander.Uninstall" /\ log[j].ok
              /\ \A j \in 1..(i - 1) : log[j].ok
        /\ \A c \in {"VersionFromString", "GetCommander", "commander.Uninstall"} :
              FailedCall(c) => CallsOf("Namespaces.Delete") = {}
C11_Witness ==
    /\ op = "Uninstall"
    /\ Returned
    /\ OkCall("commander.Uninstall")
    /\ FailedCall("Namespaces.Delete")
    /\ ret.err # Nil

\* C12: in Install and Update a failure of version parsing, manifest
\* extraction or commander resolution returns an error before any mutating
\* call; the commander's install/upgrade is invoked at most once per call and
\* only after all three preceding steps succeeded.
MutatingCalls ==
    {"commander.Install", "commander.Upgrade", "commander.Uninstall", "Namespaces.Delete"}
Preparations == {"VersionFromString", "ExtractIstioOperatorContextFrom", "GetCommander"}
C12_PrepareBeforeMutate ==
    op \in {"Install", "Update"} =>
        LET m == {i \in 1..Len(log) : log[i].call \in MutatingCalls} IN
        /\ Cardinality(m) <= 1
        /\ \A i \in m :
              /\ log[i].call = (IF op = "Install" THEN "commander.Install"
                                                  ELSE "commander.Upgrade")
              /\ {log[j].call : j \in 1..(i - 1)} = Preparations
              /\ \A j \in 1..(i - 1) : log[j].ok
        /\ \A c \in Preparations :
              FailedCall(c) => /\ m = {}
                               /\ Returned
                               /\ ret.err # Nil
                               /\ ret.err.cause = c
C12_Witness ==
    /\ op = "Update"
    /\ OkCall("VersionFromString")
    /\ FailedCall("ExtractIstioOperatorContextFrom")
    /\ Returned

\* C13: Version makes its steps in the order resolve-target-version, parse,
\* resolve-commander, query-version, map-output; the first step that fails
\* ends the operation, no later step is made, and an empty status is returned
\* with a non-nil error. On success the TargetVersion is the version resolved
\* from the chart and the commander queried is the one resolved for it.
VersionOrder ==
    <<"getTargetVersionFromIstioChart", "VersionFromString", "GetCommander",
      "commander.Version", "mapVersionToStruct">>
C13_VersionInOrder ==
    op = "Version" =>
        /\ Len(log) <= Len(VersionOrder)
        /\ \A i \in 1..Len(log) : log[i].call = VersionOrder[i]
        /\ \A i \in 1..(Len(log) - 1) : log[i].ok
        /\ (log # <<>> /\ ~log[Len(log)].ok) =>
              /\ Returned
              /\ ret.err # Nil
              /\ ret.status = EmptyStatus
        /\ (Returned /\ ret.err = Nil) =>
              /\ Len(log) = Len(VersionOrder)
              /\ ret.status.TargetVersion = resolved.version
              /\ log[2].arg.s = resolved.version
              /\ log[3].arg.s = resolved.version
              /\ log[4].arg.on = resolved.version

\* C14: a cancelled caller context aborts the cluster calls and comes back
\* as an error: once the context is cancelled no Get of PatchMutatingWebhook
\* succeeds and no Update is accepted, and the attempt that ends is the last
\* one and the call returns an error; and every cluster call an operation
\* makes, the namespace deletion of Uninstall included, carries the caller's
\* context, so that it fails without effect once the context is cancelled.
ClusterCalls == {"Namespaces.Delete", "istioProxyReset.Run"}
C14_CancelAborts ==
    [][ /\ ctxDone =>
              /\ (fetches' # fetches /\ fetches' # <<>>) => ~fetches'[Len(fetches')][2]
              /\ submitted' > submitted => accepted' = accepted /\ server' = server
              /\ Len(ends') > Len(ends) => pc' = "idle" /\ result' # NoErr
              /\ nsPresent' = nsPresent
              /\ (Len(log') > Len(log) /\ log'[Len(log')].call \in ClusterCalls) =>
                     ~log'[Len(log')].ok
        /\ \A i \in 1..Len(log') : log'[i].call \in ClusterCalls => log'[i].ctx = "caller"
      ]_vars

\* C15: every failure of a collaborator reaches the caller wrapped with a
\* message of the operation, never as the bare error and never swallowed.
C15_FailuresWrapped ==
    /\ (Returned /\ \E i \in 1..Len(log) : ~log[i].ok) =>
          /\ ret.err # Nil
          /\ ret.err.cause = log[Len(log)].call
          /\ ret.err.msgs # <<>>
    /\ (pc = "idle" /\ calls > 0 /\ result # NoErr) => result.kind = "SelectFailed"

\* C16: the proxy-reset runner gets a configuration whose image tag is the
\* caller's tag with "-distroless" appended (also when the tag already ends
\* in it), with the fixed prefix and defaults; it is invoked at most once,
\* exactly when the cluster client was retrieved, and its failure is
\* returned wrapped.
C16_ResetProxyConfig ==
    op = "ResetProxy" =>
        LET runs == CallsOf("istioProxyReset.Run") IN
        /\ Cardinality(runs) <= 1
        /\ \A i \in runs :
              /\ log[i].arg.cfg =
                    [Context |-> "caller", ImagePrefix |-> "istio/proxyv2",
                     ImageVersion |-> args.proxyImageVersion \o "-distroless",
                     RetriesCount |-> 5, DelayBetweenRetries |-> 5, Timeout |-> 300,
                     Interval |-> 12, Kubeclient |-> TRUE, Debug |-> FALSE]
              /\ \E j \in 1..(i - 1) : log[j].call = "RetrieveFrom" /\ log[j].ok
        /\ Returned => (runs # {} <=> OkCall("RetrieveFrom"))
        /\ (Returned /\ FailedCall("istioProxyReset.Run")) =>
              ret.err = [cause |-> "istioProxyReset.Run", msgs |-> <<"Istio proxy reset error">>]
        /\ (Returned /\ FailedCall("RetrieveFrom")) => ret.err.cause = "RetrieveFrom"
C16_Witness ==
    /\ op = "ResetProxy"
    /\ args.proxyImageVersion = "1.11.2-distroless"
    /\ \E i \in CallsOf("istioProxyReset.Run") :
          log[i].arg.cfg.ImageVersion = "1.11.2-distroless-distroless"
    /\ Returned
    /\ ret.err = Nil

\* ------------------------------------------------------------------------
\* Properties of the audit log middleware
\* ------------------------------------------------------------------------
\* C20: a request whose audit logging failed, and for which an error
\* response was written, is not passed on to the next handler: for every
\* request either its entry is logged and the next handler runs exactly once,
\* or the error response is sent and the next handler does not run; at most
\* one response is written per request.
C20_ErrorStopsChain ==
    /\ nextRuns <= 1
    /\ Len(responses) <= 1
    /\ (\E i \in 1..Len(responses) : responses[i].by = "auditLogRequest") => nextRuns = 0
    /\ mpc = "done" =>
          \/ /\ Len(entries) = 1
             /\ nextRuns = 1
             /\ \A i \in 1..Len(responses) : responses[i].by = "next"
          \/ /\ entries = <<>>
             /\ nextRuns = 0
             /\ Len(responses) = 1
             /\ responses[1].by = "auditLogRequest"
====
